---- MODULE Spec2Model ----
(***************************************************************************)
(* Model of the inference-serving layer of the Credit-Prediction backend:  *)
(* backend/app/pipeline_loader.py, inference.py, utils.py and the startup  *)
(* hook of main.py.                                                        *)
(*                                                                         *)
(* Startup (load_pipelines + startup_event) is a step machine over pc, so  *)
(* that the states between the two deserializations are visible.  Every    *)
(* core operation (get_schema, predict_*, score_csv, global_importance) is *)
(* one action: it draws what the opaque pipeline object does when called   *)
(* (return value or raised exception of each library call) from bounded    *)
(* sets, runs the operation as the code does and stores the outcome in     *)
(* `returned` and the ordered library calls it made in `trace`.            *)
(*                                                                         *)
(* Texts (exception messages, details) are sequences of tokens; string     *)
(* concatenation is \o and the `in` substring test is Contains.            *)
(* "Exception" means a subclass of Python's Exception throughout.          *)
(***************************************************************************)
EXTENDS Integers, Sequences, FiniteSets, TLC

VARIABLES
    files,                   \* artifact directory: file -> "absent" | "ok" | "corrupt"
    pc,                      \* position of startup_event / load_pipelines
    regression_pipeline,     \* local of load_pipelines
    classification_pipeline, \* local of load_pipelines
    app_state,               \* attributes of app.state: <<>> or [pipes |-> bundle]
    startupError,            \* the HTTPException load_pipelines raised, if any
    op,                      \* the core operation called last
    args,                    \* its inputs (arguments and what the libraries did)
    returned,                \* its outcome: a returned value or a raised error
    trace,                   \* the library calls it made, in order
    requests                 \* the HTTP requests in flight: slot -> request

vars == <<files, pc, regression_pipeline, classification_pipeline, app_state,
          startupError, op, args, returned, trace, requests>>

(***************************************************************************)
(* Bounds                                                                  *)
(***************************************************************************)
MaxMsgLen == 3
MaxRequests == 2

(***************************************************************************)
(* Texts                                                                   *)
(***************************************************************************)
\* Words an underlying library error message is made of.
MsgTokens == {"Can't", "get", "attribute", "BitGenerator", "numpy._core", "EOFError"}

SeqsUpTo(S, n) == UNION {[1..k -> S] : k \in 0..n}

\* str(e) of an exception raised by a library call.
Msgs == SeqsUpTo(MsgTokens, MaxMsgLen)

\* Python's `sub in text`: sub is a contiguous part of text.
Contains(text, sub) ==
    \E i \in 0..(Len(text) - Len(sub)) :
        \A j \in 1..Len(sub) : text[i + j] = sub[j]

\* Python's None, and "no value yet" for a variable of the model.
None == [none |-> TRUE]

\* The outcome of a call: a returned value or a raised exception with str(e) = msg.
Return(value) == [raised |-> FALSE, value |-> value]
Raise(type, msg) == [raised |-> TRUE, type |-> type, msg |-> msg]

(***************************************************************************)
(* ArtifactStore: pipeline_loader.load_pipelines, main.startup_event       *)
(***************************************************************************)
regression_path == "best_regression_pipeline.joblib"
classification_path == "best_classification_pipeline.joblib"

\* joblib.load of an intact file gives the pipeline object stored in it.
Deserialized(path) == [pipeline_from |-> path]

HTTPException(status, detail) ==
    [cls |-> "HTTPException", status_code |-> status, detail |-> detail]

MissingDetailMutant(path) ==
    <<"Artifacts not found. Place", regression_path, "in backend/artifacts/">>

\* detail of the HTTPException raised for a missing file
MissingDetail(path) == <<"Artifacts not found. Place", path, "in backend/artifacts/">>

CompatPrefix == <<"Pipeline compatibility issue:">>
CompatSuffix ==
    <<". Please ensure your pipeline files were created with compatible versions of scikit-learn and numpy. You may need to recreate the pipelines with the current environment versions.">>
LoadFailedPrefix == <<"Failed to load pipelines:">>

IsVersionSkewMutant(error_msg) ==
    Contains(error_msg, <<"Can't", "get", "attribute">>)
        \/ Contains(error_msg, <<"BitGenerator">>)

\* The test of the error text in the except branch of load_pipelines.
IsVersionSkew(error_msg) ==
    Contains(error_msg, <<"Can't", "get", "attribute">>)
        \/ Contains(error_msg, <<"BitGenerator">>)
        \/ Contains(error_msg, <<"numpy._core">>)

\* The except branch of load_pipelines.
LoadError(error_msg) ==
    IF IsVersionSkew(error_msg)
    THEN HTTPException(503, CompatPrefix \o error_msg \o CompatSuffix)
    ELSE HTTPException(503, LoadFailedPrefix \o error_msg)

StartupVars ==
    <<files, pc, regression_pipeline, classification_pipeline, app_state, startupError>>
CallVars == <<op, args, returned, trace>>

Init ==
    /\ files \in [{regression_path, classification_path} -> {"absent", "ok", "corrupt"}]
    /\ pc = "check_regression"
    /\ regression_pipeline = None
    /\ classification_pipeline = None
    /\ app_state = <<>>
    /\ startupError = None
    /\ op = "none"
    /\ args = None
    /\ returned = None
    /\ trace = <<>>
    /\ requests = [r \in 1..MaxRequests |-> [at |-> "free"]]

\* if not os.path.exists(regression_path): raise HTTPException(...)
CheckRegression ==
    /\ pc = "check_regression"
    /\ IF files[regression_path] = "absent"
       THEN /\ pc' = "failed"
            /\ startupError' = HTTPException(503, MissingDetail(regression_path))
       ELSE /\ pc' = "check_classification"
            /\ UNCHANGED startupError
    /\ UNCHANGED <<requests, files, regression_pipeline, classification_pipeline, app_state>>
    /\ UNCHANGED CallVars

\* if not os.path.exists(classification_path): raise HTTPException(...)
CheckClassification ==
    /\ pc = "check_classification"
    /\ IF files[classification_path] = "absent"
       THEN /\ pc' = "failed"
            /\ startupError' = HTTPException(503, MissingDetail(classification_path))
       ELSE /\ pc' = "load_regression"
            /\ UNCHANGED startupError
    /\ UNCHANGED <<requests, files, regression_pipeline, classification_pipeline, app_state>>
    /\ UNCHANGED CallVars

LoadRegressionMutant ==
    /\ pc = "load_regression"
    /\ IF files[regression_path] = "corrupt"
       THEN \E error_msg \in Msgs :
                /\ pc' = "failed"
                /\ startupError' = LoadError(error_msg)
                /\ op' = "load_pipelines"
                /\ args' = [error_msg |-> error_msg]
                /\ UNCHANGED <<regression_pipeline, app_state>>
       ELSE /\ pc' = "load_classification"
            /\ regression_pipeline' = Deserialized(regression_path)
            /\ app_state' = [a \in {"pipes"} |->
                                [k \in {"reg"} |-> Deserialized(regression_path)]]
            /\ UNCHANGED <<startupError, op, args>>
    /\ UNCHANGED <<requests, files, classification_pipeline, returned, trace>>

\* regression_pipeline = joblib.load(regression_path), inside the try
LoadRegression ==
    /\ pc = "load_regression"
    /\ IF files[regression_path] = "corrupt"
       THEN \E error_msg \in Msgs :
                /\ pc' = "failed"
                /\ startupError' = LoadError(error_msg)
                /\ op' = "load_pipelines"
                /\ args' = [error_msg |-> error_msg]
                /\ UNCHANGED regression_pipeline
       ELSE /\ pc' = "load_classification"
            /\ regression_pipeline' = Deserialized(regression_path)
            /\ UNCHANGED <<startupError, op, args>>
    /\ UNCHANGED <<requests, files, classification_pipeline, app_state, returned, trace>>

\* classification_pipeline = joblib.load(classification_path), inside the try
LoadClassification ==
    /\ pc = "load_classification"
    /\ IF files[classification_path] = "corrupt"
       THEN \E error_msg \in Msgs :
                /\ pc' = "failed"
                /\ startupError' = LoadError(error_msg)
                /\ op' = "load_pipelines"
                /\ args' = [error_msg |-> error_msg]
                /\ UNCHANGED classification_pipeline
       ELSE /\ pc' = "return"
            /\ classification_pipeline' = Deserialized(classification_path)
            /\ UNCHANGED <<startupError, op, args>>
    /\ UNCHANGED <<requests, files, regression_pipeline, app_state, returned, trace>>

\* What load_pipelines returns: the dict {"reg": ..., "clf": ...}.
Bundle(reg, clf) == [k \in {"reg", "clf"} |-> IF k = "reg" THEN reg ELSE clf]

\* return {"reg": ..., "clf": ...}; app.state.pipes = load_pipelines()
StartupAssign ==
    /\ pc = "return"
    /\ app_state' = [a \in {"pipes"} |->
                        Bundle(regression_pipeline, classification_pipeline)]
    /\ pc' = "serving"
    /\ UNCHANGED <<requests, files, regression_pipeline, classification_pipeline, startupError>>
    /\ UNCHANGED CallVars

(***************************************************************************)
(* SchemaIntrospector: pipeline_loader.get_schema                          *)
(***************************************************************************)
MaxEntries == 2
MaxCols == 2

ColumnNames == {"Customer_Age", "Gender"}
ColumnLists == SeqsUpTo(ColumnNames, MaxCols)

\* One element of preprocessor.transformers: a (name, transformer, features)
\* triple whose features is a list of columns, a triple whose features is a
\* scalar column index (list() of it raises), or a tuple of another arity.
TransformerEntries ==
    [name : {"num", "cat", "remainder"}, features : ColumnLists]
        \cup [name : {"num", "cat", "remainder"}, scalar_features : {0}]
        \cup {[arity |-> 2]}

IsTriple(entry) == "name" \in DOMAIN entry
IsIterable(entry) == "features" \in DOMAIN entry

\* What the pipeline object handed to get_schema looks like.
SchemaPipelines ==
    [kind : {"no_named_steps", "no_preprocess_step", "no_transformers",
             "transformers_not_iterable"}]
        \cup [kind : {"column_transformer"},
              transformers : SeqsUpTo(TransformerEntries, MaxEntries)]

Schema(numeric_features, categorical_features) ==
    [numeric_features |-> numeric_features,
     categorical_features |-> categorical_features]

FallbackSchema ==
    Schema(<<"Customer_Age", "Dependent_count", "Months_on_book",
             "Total_Relationship_Count", "Months_Inactive_12_mon",
             "Contacts_Count_12_mon", "Total_Revolving_Bal",
             "Avg_Open_To_Buy", "Total_Amt_Chng_Q4_Q1",
             "Total_Trans_Amt", "Total_Trans_Ct",
             "Total_Ct_Chng_Q4_Q1", "Avg_Utilization_Ratio">>,
           <<"Gender", "Education_Level", "Marital_Status",
             "Income_Category", "Card_Category">>)

SchemaStepMutant(entry, acc) ==
    IF ~IsTriple(entry)
    THEN Raise("ValueError", <<"not enough values to unpack">>)
    ELSE IF entry.name = "num"
    THEN IF IsIterable(entry)
         THEN Return(Schema(entry.features, acc.categorical_features))
         ELSE Raise("TypeError", <<"object is not iterable">>)
    ELSE IF IsIterable(entry)
         THEN Return(Schema(acc.numeric_features, entry.features))
         ELSE Raise("TypeError", <<"object is not iterable">>)

\* One iteration of `for name, transformer, features in ...transformers`.
SchemaStep(entry, acc) ==
    IF ~IsTriple(entry)
    THEN Raise("ValueError", <<"not enough values to unpack">>)
    ELSE IF entry.name = "num"
    THEN IF IsIterable(entry)
         THEN Return(Schema(entry.features, acc.categorical_features))
         ELSE Raise("TypeError", <<"object is not iterable">>)
    ELSE IF entry.name = "cat"
    THEN IF IsIterable(entry)
         THEN Return(Schema(acc.numeric_features, entry.features))
         ELSE Raise("TypeError", <<"object is not iterable">>)
    ELSE Return(acc)

RECURSIVE SchemaLoop(_, _)
SchemaLoop(entries, acc) ==
    IF Len(entries) = 0
    THEN Return(acc)
    ELSE LET step == SchemaStep(Head(entries), acc)
         IN  IF step.raised THEN step ELSE SchemaLoop(Tail(entries), step.value)

\* The try block of get_schema.
SchemaTry(pipeline) ==
    CASE pipeline.kind = "no_named_steps" ->
             Raise("AttributeError", <<"object has no attribute 'named_steps'">>)
      [] pipeline.kind = "no_preprocess_step" ->
             Raise("KeyError", <<"'preprocess'">>)
      [] pipeline.kind = "no_transformers" ->
             Raise("AttributeError", <<"object has no attribute 'transformers'">>)
      [] pipeline.kind = "transformers_not_iterable" ->
             Raise("TypeError", <<"object is not iterable">>)
      [] OTHER -> SchemaLoop(pipeline.transformers, Schema(<<>>, <<>>))

get_schemaMutant(pipeline) ==
    LET r == SchemaTry(pipeline)
    IN  IF r.raised /\ r.type \in {"AttributeError", "KeyError"}
        THEN Return(FallbackSchema)
        ELSE r

\* get_schema: the try block, and the fallback of `except Exception`.
get_schema(pipeline) ==
    LET r == SchemaTry(pipeline)
    IN  IF r.raised THEN Return(FallbackSchema) ELSE r

\* A core operation is called once startup has stored the bundle and the
\* previous call's outcome has been taken by its caller.
Idle == pc = "serving" /\ op = "none"

\* The caller takes the outcome of the call; the next call starts afresh.
Respond ==
    /\ pc = "serving"
    /\ op # "none"
    /\ op' = "none"
    /\ args' = None
    /\ returned' = None
    /\ trace' = <<>>
    /\ UNCHANGED <<StartupVars, requests>>

GetSchema ==
    /\ Idle
    /\ \E pipeline \in SchemaPipelines :
           /\ op' = "get_schema"
           /\ args' = [pipeline |-> pipeline]
           /\ returned' = get_schema(pipeline)
           /\ trace' = <<>>
    /\ UNCHANGED <<StartupVars, requests>>

(***************************************************************************)
(* PredictionService: inference.py                                         *)
(***************************************************************************)
MaxTick == 1

\* str(e) of the exceptions the libraries raise while a request is served.
RequestMsgs == {m \in Msgs : Len(m) <= 1}
Raises == {Raise("Exception", m) : m \in RequestMsgs}

IsInjective(seq) == \A i, j \in 1..Len(seq) : seq[i] = seq[j] => i = j

\* A payload is a dict: its keys in insertion order (the values play no part
\* in what the code does), or a payload pd.DataFrame([payload]) raises on.
Payloads ==
    {[keys |-> k] : k \in {c \in ColumnLists : IsInjective(c)}}
        \cup {[unframeable |-> m] : m \in RequestMsgs}

\* A table as the model calls see it: its column labels and number of rows.
Frame(columns, nrows) == [columns |-> columns, nrows |-> nrows]

\* pd.DataFrame([payload])
DataFrame(payload) ==
    IF "keys" \in DOMAIN payload
    THEN Return(Frame(payload.keys, 1))
    ELSE Raise("Exception", payload.unframeable)

\* A call of the pipeline with the table it is handed.
Call(name, df) == [call |-> name, columns |-> df.columns]
TimeCall(t) == [call |-> "time.time", value |-> t]

\* What a call ran to: its outcome and the library calls it made, in order.
Ran(out, calls) == [out |-> out, calls |-> calls]

\* Values a pipeline's predict may hand back: numbers, numerals in a string,
\* other strings.
NumVals == {0, 1500}
RegValues == [num : NumVals] \cup [numeral : {7}] \cup [text : {"n/a"}]

\* float(x)
Float(x) ==
    IF "num" \in DOMAIN x THEN Return(x.num)
    ELSE IF "numeral" \in DOMAIN x THEN Return(x.numeral)
    ELSE Raise("ValueError", <<"could not convert string to float:", x.text>>)

\* Class labels: numpy strings or integers.
Labels == [str : {"Low", "Med", "High", "Medium"}] \cup [int : {0, 1}]
StrLabel(s) == [str |-> s]
IntLabel(n) == [int |-> n]

\* str(x) of a label
Str(label) ==
    IF "str" \in DOMAIN label THEN label.str
    ELSE IF label.int = 0 THEN "0" ELSE "1"

\* pipeline.classes_ of the pipelines considered.
ClassLists ==
    { <<StrLabel("High"), StrLabel("Low"), StrLabel("Med")>>,
      <<StrLabel("Low"), StrLabel("Medium"), StrLabel("High")>>,
      <<IntLabel(1), IntLabel(0)>>,
      <<StrLabel("Low")>> }

RECURSIVE SumSeq(_)
SumSeq(seq) == IF Len(seq) = 0 THEN 0 ELSE Head(seq) + SumSeq(Tail(seq))

\* Probabilities are counted in hundredths: 0.33 is 33.
ProbaVals == {25, 50, 75, 100}
Distributions(k) == {v \in [1..k -> ProbaVals] : SumSeq(v) = 100}

\* A regression pipeline: what predict does on a one-row table.
RegPipelines ==
    [predict : Raises \cup {Return(a) : a \in SeqsUpTo(RegValues, 1)}]

\* The probability side of a classification pipeline on a one-row table.
ProbaCaps ==
    {[has_predict_proba |-> FALSE]}
        \cup {[has_predict_proba |-> TRUE, predict_proba |-> r] : r \in Raises}
        \cup {[has_predict_proba |-> TRUE, predict_proba |-> Return(<<>>)]}
        \cup UNION {{[has_predict_proba |-> TRUE,
                      predict_proba |-> Return(<<v>>),
                      classes_ |-> Return(c)] : v \in Distributions(Len(c))}
                    : c \in ClassLists}
        \cup {[has_predict_proba |-> TRUE,
               predict_proba |-> Return(<<v>>),
               classes_ |-> Raise("AttributeError",
                                  <<"object has no attribute 'classes_'">>)]
              : v \in Distributions(3)}

ClfPipelines ==
    [predict : Raises \cup {Return(a) : a \in SeqsUpTo(Labels, 1)},
     proba : ProbaCaps]

\* The try block of predict_regression.
RegressionTry(pipeline, payload) ==
    LET df == DataFrame(payload)
    IN  IF df.raised THEN Ran(df, <<>>)
        ELSE LET calls == <<Call("predict", df.value)>>
             IN  IF pipeline.predict.raised THEN Ran(pipeline.predict, calls)
                 ELSE IF Len(pipeline.predict.value) = 0
                 THEN Ran(Raise("IndexError", <<"index 0 is out of bounds">>), calls)
                 ELSE Ran(Float(pipeline.predict.value[1]), calls)

RegressionPrefix == <<"Regression prediction failed:">>
ClassificationPrefix == <<"Classification prediction failed:">>
ScoringPrefix == <<"CSV scoring failed:">>

WrapFailureMutant(prefix, ran) ==
    IF ran.out.raised
    THEN Ran(Raise("ValueError", prefix), ran.calls)
    ELSE ran

\* except Exception as e: raise ValueError(f"<prefix> {str(e)}")
WrapFailure(prefix, ran) ==
    IF ran.out.raised
    THEN Ran(Raise("ValueError", prefix \o ran.out.msg), ran.calls)
    ELSE ran

predict_regression(pipeline, payload) ==
    WrapFailure(RegressionPrefix, RegressionTry(pipeline, payload))

Min(a, b) == IF a <= b THEN a ELSE b

\* {str(cls): float(prob) for cls, prob in zip(classes, proba_values)}
ZipDict(classes, proba_values) ==
    LET n == Min(Len(classes), Len(proba_values))
        last(k) == CHOOSE i \in 1..n :
                       /\ Str(classes[i]) = k
                       /\ \A j \in 1..n : Str(classes[j]) = k => j <= i
    IN  [k \in {Str(classes[i]) : i \in 1..n} |-> proba_values[last(k)]]

\* {"Low": 0.33, "Medium": 0.33, "High": 0.34}
FallbackProba ==
    [k \in {"Low", "Medium", "High"} |-> IF k = "High" THEN 34 ELSE 33]

ProbaOfMutant(pipeline) ==
    IF pipeline.proba.has_predict_proba
    THEN IF pipeline.proba.predict_proba.raised THEN pipeline.proba.predict_proba
         ELSE IF Len(pipeline.proba.predict_proba.value) = 0
         THEN Raise("IndexError", <<"index 0 is out of bounds">>)
         ELSE IF pipeline.proba.classes_.raised THEN pipeline.proba.classes_
         ELSE Return(ZipDict(<<StrLabel("Low"), StrLabel("Medium"), StrLabel("High")>>,
                             pipeline.proba.predict_proba.value[1]))
    ELSE Return(FallbackProba)

\* inference.py:31-38: the probability mapping.
ProbaOf(pipeline) ==
    IF pipeline.proba.has_predict_proba
    THEN IF pipeline.proba.predict_proba.raised THEN pipeline.proba.predict_proba
         ELSE IF Len(pipeline.proba.predict_proba.value) = 0
         THEN Raise("IndexError", <<"index 0 is out of bounds">>)
         ELSE IF pipeline.proba.classes_.raised THEN pipeline.proba.classes_
         ELSE Return(ZipDict(pipeline.proba.classes_.value,
                             pipeline.proba.predict_proba.value[1]))
    ELSE Return(FallbackProba)

\* The try block of predict_classification.
ClassificationTry(pipeline, payload) ==
    LET df == DataFrame(payload)
    IN  IF df.raised THEN Ran(df, <<>>)
        ELSE LET calls == <<Call("predict", df.value)>>
             IN  IF pipeline.predict.raised THEN Ran(pipeline.predict, calls)
                 ELSE IF Len(pipeline.predict.value) = 0
                 THEN Ran(Raise("IndexError", <<"index 0 is out of bounds">>), calls)
                 ELSE LET proba == ProbaOf(pipeline)
                          all == IF pipeline.proba.has_predict_proba
                                 THEN calls \o <<Call("predict_proba", df.value)>>
                                 ELSE calls
                      IN  IF proba.raised THEN Ran(proba, all)
                          ELSE Ran(Return(<<Str(pipeline.predict.value[1]),
                                            proba.value>>), all)

predict_classification(pipeline, payload) ==
    WrapFailure(ClassificationPrefix, ClassificationTry(pipeline, payload))

Tasks == {"regression", "classification", "unknown"}
Clocks == (0..MaxTick) \X (0..MaxTick)

predict_with_timingMutant(pipeline, payload, task, clock) ==
    IF task \notin {"regression", "classification"}
    THEN Ran(Raise("ValueError", <<"Unknown task:", task>>), <<>>)
    ELSE LET result == IF task = "regression"
                       THEN predict_regression(pipeline, payload)
                       ELSE predict_classification(pipeline, payload)
         IN  IF result.out.raised
             THEN Ran(result.out, <<TimeCall(clock[1])>> \o result.calls)
             ELSE Ran(Return(<<result.out.value, (clock[2] - clock[1]) * 1000>>),
                      <<TimeCall(clock[1])>> \o result.calls
                          \o <<TimeCall(clock[2])>>)

\* predict_with_timing; clock holds the readings time.time() gives.
predict_with_timing(pipeline, payload, task, clock) ==
    LET start == <<TimeCall(clock[1])>>
    IN  IF task \notin {"regression", "classification"}
        THEN Ran(Raise("ValueError", <<"Unknown task:", task>>), start)
        ELSE LET result == IF task = "regression"
                           THEN predict_regression(pipeline, payload)
                           ELSE predict_classification(pipeline, payload)
             IN  IF result.out.raised
                 THEN Ran(result.out, start \o result.calls)
                 ELSE Ran(Return(<<result.out.value, (clock[2] - clock[1]) * 1000>>),
                          start \o result.calls \o <<TimeCall(clock[2])>>)

PredictRegression ==
    /\ Idle
    /\ \E pipeline \in RegPipelines, payload \in Payloads :
           LET ran == predict_regression(pipeline, payload)
           IN  /\ op' = "predict_regression"
               /\ args' = [pipeline |-> pipeline, payload |-> payload]
               /\ returned' = ran.out
               /\ trace' = ran.calls
    /\ UNCHANGED <<StartupVars, requests>>

PredictClassification ==
    /\ Idle
    /\ \E pipeline \in ClfPipelines, payload \in Payloads :
           LET ran == predict_classification(pipeline, payload)
           IN  /\ op' = "predict_classification"
               /\ args' = [pipeline |-> pipeline, payload |-> payload]
               /\ returned' = ran.out
               /\ trace' = ran.calls
    /\ UNCHANGED <<StartupVars, requests>>

PredictWithTiming ==
    /\ Idle
    /\ \E task \in Tasks, payload \in Payloads, clock \in Clocks :
       \E pipeline \in IF task = "classification" THEN ClfPipelines ELSE RegPipelines :
           LET ran == predict_with_timing(pipeline, payload, task, clock)
           IN  /\ op' = "predict_with_timing"
               /\ args' = [pipeline |-> pipeline, payload |-> payload,
                           task |-> task, clock |-> clock]
               /\ returned' = ran.out
               /\ trace' = ran.calls
    /\ UNCHANGED <<StartupVars, requests>>

(***************************************************************************)
(* BatchScorer: utils.score_csv                                            *)
(***************************************************************************)
MaxRows == 2

\* The header rows and the cell texts of the uploaded files considered.
Headers ==
    { <<"a">>, <<"a", "pred_credit_limit">>, <<"pred_tier", "a">>, <<"a", "a">> }
CellTexts == {"1", "01", "x"}

\* An uploaded file: delimited text with a header row and rows that repeat one
\* cell text across the columns, or bytes pd.read_csv raises on.
CsvText(header, rows) == [header |-> header, rows |-> rows]
FileContents ==
    {[unparsable |-> m] : m \in RequestMsgs}
        \cup UNION {{CsvText(h, [i \in 1..n |-> [j \in 1..Len(h) |-> cells[i]]])
                        : cells \in [1..n -> CellTexts], h \in Headers}
                    : n \in 0..MaxRows}

\* pandas renames a repeated header label: the second "a" becomes "a.1".
Mangle(header) ==
    [j \in 1..Len(header) |->
        IF \E k \in 1..(j - 1) : header[k] = header[j]
        THEN IF header[j] = "a" THEN "a.1" ELSE "dup.1"
        ELSE header[j]]

IsNumeral(text) == text \in {"1", "01"}

\* Type inference of read_csv: a column of numerals is numeric, any other
\* column keeps its texts.
ParseColumn(texts) ==
    IF \A i \in 1..Len(texts) : IsNumeral(texts[i])
    THEN [i \in 1..Len(texts) |-> [num |-> 1]]
    ELSE [i \in 1..Len(texts) |-> [text |-> texts[i]]]

\* pd.read_csv(io.BytesIO(file_content))
ReadCsv(file_content) ==
    IF "unparsable" \in DOMAIN file_content
    THEN Raise("Exception", file_content.unparsable)
    ELSE Return([columns |-> Mangle(file_content.header),
                 data |-> [j \in 1..Len(file_content.header) |->
                              ParseColumn([i \in 1..Len(file_content.rows) |->
                                              file_content.rows[i][j]])],
                 nrows |-> Len(file_content.rows)])

HasColumn(df, name) == \E j \in 1..Len(df.columns) : df.columns[j] = name

\* df[name] = values, for an array of values
SetColumn(df, name, values) ==
    IF Len(values) # df.nrows
    THEN Raise("ValueError", <<"Length of values does not match length of index">>)
    ELSE IF HasColumn(df, name)
    THEN Return([df EXCEPT !.data =
                    [j \in 1..Len(df.columns) |->
                        IF df.columns[j] = name THEN values ELSE df.data[j]]])
    ELSE Return([df EXCEPT !.columns = Append(df.columns, name),
                           !.data = Append(df.data, values)])

\* df[name] = value, for a scalar
SetConstant(df, name, value) ==
    SetColumn(df, name, [i \in 1..df.nrows |-> value]).value

\* How to_csv writes a value.
FormatCell(v) ==
    IF "text" \in DOMAIN v THEN v.text
    ELSE IF "str" \in DOMAIN v THEN v.str
    ELSE IF "int" \in DOMAIN v THEN (IF v.int = 0 THEN "0" ELSE "1")
    ELSE IF "hundredths" \in DOMAIN v
    THEN CASE v.hundredths = 25 -> "0.25"
           [] v.hundredths = 33 -> "0.33"
           [] v.hundredths = 34 -> "0.34"
           [] v.hundredths = 50 -> "0.5"
           [] v.hundredths = 75 -> "0.75"
           [] OTHER -> "1.0"
    \* a parsed integer is 1; the predictions are floats
    ELSE CASE v.num = 1 -> "1"
           [] v.num = 0 -> "0.0"
           [] OTHER -> "1500.0"

\* df.to_csv(output, index=False); output.getvalue().encode('utf-8')
ToCsv(df) ==
    CsvText(df.columns,
            [i \in 1..df.nrows |->
                [j \in 1..Len(df.columns) |-> FormatCell(df.data[j][i])]])

\* f'proba_{cls}'
ProbaColumn(cls) ==
    CASE Str(cls) = "Low" -> "proba_Low"
      [] Str(cls) = "Med" -> "proba_Med"
      [] Str(cls) = "Medium" -> "proba_Medium"
      [] Str(cls) = "High" -> "proba_High"
      [] Str(cls) = "0" -> "proba_0"
      [] OTHER -> "proba_1"

Hundredths(n) == [hundredths |-> n]

\* for i, cls in enumerate(classes): df[f'proba_{cls}'] = proba_values[:, i]
RECURSIVE ProbaLoop(_, _, _, _)
ProbaLoop(df, classes, proba_values, i) ==
    IF i > Len(classes) THEN Return(df)
    ELSE LET column == [r \in 1..Len(proba_values) |->
                           Hundredths(proba_values[r][i])]
             set == SetColumn(df, ProbaColumn(classes[i]), column)
         IN  IF set.raised THEN set
             ELSE ProbaLoop(set.value, classes, proba_values, i + 1)

\* The pipelines score_csv is handed, for a table of n rows: what predict
\* returns (one value per row, or one value too many), whether predict_proba
\* exists and what it and classes_ return, and whether writing the scored
\* table out raises.
BatchClassLists ==
    { <<StrLabel("High"), StrLabel("Low"), StrLabel("Med")>>,
      <<IntLabel(1), IntLabel(0)>> }
BatchLabels == {StrLabel("Low"), StrLabel("High")}
BatchRaises == {Raise("Exception", <<"EOFError">>)}

ProbaMatrices(n, k) ==
    [1..n -> Distributions(k)]
        \cup {[r \in 1..(n + 1) |-> CHOOSE d \in Distributions(k) : TRUE]}

BatchProbaCaps(n) ==
    {[has_predict_proba |-> FALSE]}
        \cup {[has_predict_proba |-> TRUE, predict_proba |-> r] : r \in BatchRaises}
        \cup UNION {{[has_predict_proba |-> TRUE,
                      predict_proba |-> Return(m),
                      classes_ |-> Return(c)] : m \in ProbaMatrices(n, Len(c))}
                    : c \in BatchClassLists}

BatchPredictions(n, values) ==
    BatchRaises
        \cup {Return(a) : a \in [1..n -> values]}
        \cup {Return([i \in 1..(n + 1) |-> CHOOSE v \in values : TRUE])}

BatchPipelines(n, mode) ==
    IF mode = "classification"
    THEN [predict : BatchPredictions(n, BatchLabels),
          proba : BatchProbaCaps(n),
          to_csv : {Return(None)} \cup BatchRaises]
    ELSE [predict : BatchPredictions(n, [num : NumVals]),
          proba : {[has_predict_proba |-> FALSE]},
          to_csv : {Return(None)} \cup BatchRaises]

\* The regression branch of score_csv, from the parsed table on.
ScoreRegression(df, pipeline) ==
    LET calls == <<Call("predict", df)>>
    IN  IF pipeline.predict.raised THEN Ran(pipeline.predict, calls)
        ELSE Ran(SetColumn(df, "pred_credit_limit", pipeline.predict.value), calls)

\* The classification branch of score_csv, from the parsed table on.
ScoreClassification(df, pipeline) ==
    LET calls == <<Call("predict", df)>>
    IN  IF pipeline.predict.raised THEN Ran(pipeline.predict, calls)
        ELSE LET tier == SetColumn(df, "pred_tier", pipeline.predict.value)
             IN  IF tier.raised THEN Ran(tier, calls)
                 ELSE IF pipeline.proba.has_predict_proba
                 THEN LET all == calls \o <<Call("predict_proba", tier.value)>>
                      IN  IF pipeline.proba.predict_proba.raised
                          THEN Ran(pipeline.proba.predict_proba, all)
                          ELSE Ran(ProbaLoop(tier.value,
                                             pipeline.proba.classes_.value,
                                             pipeline.proba.predict_proba.value, 1),
                                   all)
                 ELSE Ran(Return(SetConstant(SetConstant(SetConstant(tier.value,
                              "proba_Low", Hundredths(33)),
                              "proba_Medium", Hundredths(33)),
                              "proba_High", Hundredths(34))), calls)

\* The try block of score_csv.
ScoreTry(file_content, mode, pipeline) ==
    LET df == ReadCsv(file_content)
    IN  IF df.raised THEN Ran(df, <<>>)
        ELSE LET scored ==
                     IF mode = "regression" THEN ScoreRegression(df.value, pipeline)
                     ELSE IF mode = "classification"
                     THEN ScoreClassification(df.value, pipeline)
                     ELSE Ran(Raise("ValueError", <<"Unknown mode:", mode>>), <<>>)
             IN  IF scored.out.raised THEN scored
                 ELSE IF pipeline.to_csv.raised THEN Ran(pipeline.to_csv, scored.calls)
                 ELSE Ran(Return(ToCsv(scored.out.value)), scored.calls)

score_csv(file_content, mode, pipeline) ==
    WrapFailure(ScoringPrefix, ScoreTry(file_content, mode, pipeline))

Modes == {"regression", "classification", "other"}

RowsOf(file_content) ==
    IF "rows" \in DOMAIN file_content THEN Len(file_content.rows) ELSE 0

ScoreCsv ==
    /\ Idle
    /\ \E file_content \in FileContents, mode \in Modes :
       \E pipeline \in BatchPipelines(RowsOf(file_content), mode) :
           LET ran == score_csv(file_content, mode, pipeline)
           IN  /\ op' = "score_csv"
               /\ args' = [file_content |-> file_content, mode |-> mode,
                           pipeline |-> pipeline]
               /\ returned' = ran.out
               /\ trace' = ran.calls
    /\ UNCHANGED <<StartupVars, requests>>

(***************************************************************************)
(* ImportanceExtractor: utils.global_importance                            *)
(***************************************************************************)
MaxFeatures == 2
TopN == 20

\* Importances are counted in hundredths: 0.15 is 15.
Entry(feature, importance) == [feature |-> feature, importance |-> importance]

StaticImportance ==
    << Entry("Customer_Age", 15), Entry("Total_Trans_Amt", 12),
       Entry("Total_Revolving_Bal", 10), Entry("Avg_Utilization_Ratio", 9),
       Entry("Total_Trans_Ct", 8), Entry("Months_on_book", 7),
       Entry("Total_Relationship_Count", 6), Entry("Income_Category", 5),
       Entry("Education_Level", 4), Entry("Card_Category", 3) >>

\* The list of the outer except branch.
ExceptImportance ==
    << Entry("Customer_Age", 15), Entry("Total_Trans_Amt", 12),
       Entry("Total_Revolving_Bal", 10), Entry("Avg_Utilization_Ratio", 9),
       Entry("Total_Trans_Ct", 8) >>

\* Columns as a ColumnTransformer names them: labels or positions.
FeatureRefs == [str : {"Customer_Age", "Total_Trans_Amt"}] \cup [int : {0}]
ImportanceVals == {10, 30}
ImportanceVectors == SeqsUpTo(ImportanceVals, MaxFeatures)

\* The estimator step: None, or an object that may have tree_ and may have
\* feature_importances_.
Estimators ==
    {None}
        \cup [has_tree : BOOLEAN, has_importances : {FALSE}]
        \cup [has_tree : BOOLEAN, has_importances : {TRUE},
              feature_importances_ : ImportanceVectors]

\* named_steps['preprocess'].transformers_: the fitted (name, transformer,
\* columns) entries, each name at most once, in either order; the "cat"
\* entry has one column.
FittedTransformers ==
    LET nums == {[name |-> "num", features |-> f]
                    : f \in SeqsUpTo(FeatureRefs, MaxFeatures)}
        cat == [name |-> "cat", features |-> <<StrLabel("Gender")>>]
    IN  {<<>>, <<cat>>}
            \cup {<<n>> : n \in nums}
            \cup {<<n, cat>> : n \in nums}
            \cup {<<cat, n>> : n \in nums}

\* The pipeline handed to global_importance: without named_steps, or with an
\* estimator step and what named_steps['preprocess'].transformers_ gives.
ImportancePipelines ==
    {[kind |-> "no_named_steps"]}
        \cup [kind : {"steps"},
              estimator : Estimators,
              transformers_ : {Raise("KeyError", <<"'preprocess'">>)}
                  \cup {Return(t) : t \in FittedTransformers}]

\* pipeline.named_steps['preprocess'].transformers_[0][2]
FeatureNames(pipeline) ==
    IF pipeline.transformers_.raised THEN pipeline.transformers_
    ELSE IF Len(pipeline.transformers_.value) = 0
    THEN Raise("IndexError", <<"list index out of range">>)
    ELSE Return(pipeline.transformers_.value[1].features)

\* The explainability library: whether `import shap` succeeds and what
\* TreeExplainer(...).shap_values(...), reduced to mean |value| per feature,
\* gives.
ShapLibraries ==
    {[import_ok |-> FALSE]}
        \cup [import_ok : {TRUE},
              explain : {Raise("ImportError", <<"EOFError">>),
                         Raise("Exception", <<"EOFError">>)}
                  \cup {Return(v) : v \in ImportanceVectors}]

HasTree(estimator) == "has_tree" \in DOMAIN estimator /\ estimator.has_tree
HasImportances(estimator) ==
    "has_importances" \in DOMAIN estimator /\ estimator.has_importances

\* [{"feature": str(feat), "importance": float(imp)} for feat, imp in zip(...)]
ZipEntries(feature_names, importances) ==
    [i \in 1..Min(Len(feature_names), Len(importances)) |->
        Entry(Str(feature_names[i]), importances[i])]

\* importance_data.sort(key=lambda x: x["importance"], reverse=True): stable.
RECURSIVE SortDescending(_)
SortDescending(seq) ==
    IF Len(seq) = 0 THEN <<>>
    ELSE LET first == CHOOSE i \in 1..Len(seq) :
                          \A j \in 1..Len(seq) :
                              \/ seq[i].importance > seq[j].importance
                              \/ (seq[i].importance = seq[j].importance /\ i <= j)
             rest == [k \in 1..(Len(seq) - 1) |->
                          IF k < first THEN seq[k] ELSE seq[k + 1]]
         IN  <<seq[first]>> \o SortDescending(rest)

\* importance_data[:n]
Take(seq, n) == SubSeq(seq, 1, Min(n, Len(seq)))

Ranked(feature_names, importances) ==
    Take(SortDescending(ZipEntries(feature_names, importances)), TopN)

NoNamedSteps ==
    Raise("AttributeError", <<"object has no attribute 'named_steps'">>)

Tier(name) == [tier |-> name]
\* A tier that ended the try block (returned or raised), or fell through.
Ended(out, tiers) == [ended |-> TRUE, out |-> out, calls |-> tiers]
FellThrough(tiers) == [ended |-> FALSE, calls |-> tiers]

ExplainabilityTierMutant(pipeline, shap) ==
    LET here == <<Tier("explainability")>>
    IN  IF ~shap.import_ok THEN FellThrough(here)
        ELSE IF pipeline.kind = "no_named_steps" THEN Ended(NoNamedSteps, here)
        ELSE IF ~HasTree(pipeline.estimator) THEN FellThrough(here)
        ELSE IF FeatureNames(pipeline).raised
        THEN Ended(FeatureNames(pipeline), here)
        ELSE IF shap.explain.raised
        THEN FellThrough(here)
        ELSE Ended(Return(Ranked(FeatureNames(pipeline).value, shap.explain.value)),
                   here)

\* utils.py:78-101: the inner try with its `except ImportError: pass`.
ExplainabilityTier(pipeline, shap) ==
    LET here == <<Tier("explainability")>>
    IN  IF ~shap.import_ok THEN FellThrough(here)
        ELSE IF pipeline.kind = "no_named_steps" THEN Ended(NoNamedSteps, here)
        ELSE IF ~HasTree(pipeline.estimator) THEN FellThrough(here)
        ELSE IF FeatureNames(pipeline).raised
        THEN Ended(FeatureNames(pipeline), here)
        ELSE IF shap.explain.raised
        THEN IF shap.explain.type = "ImportError"
             THEN FellThrough(here)
             ELSE Ended(shap.explain, here)
        ELSE Ended(Return(Ranked(FeatureNames(pipeline).value, shap.explain.value)),
                   here)

\* utils.py:103-114
NativeTier(pipeline) ==
    LET here == <<Tier("native")>>
    IN  IF pipeline.kind = "no_named_steps" THEN Ended(NoNamedSteps, here)
        ELSE IF ~HasImportances(pipeline.estimator) THEN FellThrough(here)
        ELSE IF FeatureNames(pipeline).raised
        THEN Ended(FeatureNames(pipeline), here)
        ELSE Ended(Return(Ranked(FeatureNames(pipeline).value,
                                 pipeline.estimator.feature_importances_)), here)

\* utils.py:116-128
StaticTier == Ended(Return(StaticImportance), <<Tier("static")>>)

\* The outer try block of global_importance.
ImportanceTry(pipeline, shap) ==
    LET first == ExplainabilityTier(pipeline, shap)
    IN  IF first.ended THEN Ran(first.out, first.calls)
        ELSE LET second == NativeTier(pipeline)
             IN  IF second.ended THEN Ran(second.out, first.calls \o second.calls)
                 ELSE Ran(StaticTier.out,
                          first.calls \o second.calls \o StaticTier.calls)

global_importanceMutant(pipeline, shap) ==
    LET ran == ImportanceTry(pipeline, shap)
    IN  IF ran.out.raised /\ ran.out.type # "AttributeError"
        THEN Ran(Return(ExceptImportance), ran.calls)
        ELSE ran

\* global_importance: the tiers, and the list of `except Exception`.
global_importance(pipeline, shap) ==
    LET ran == ImportanceTry(pipeline, shap)
    IN  IF ran.out.raised THEN Ran(Return(ExceptImportance), ran.calls) ELSE ran

GlobalImportance ==
    /\ Idle
    /\ \E pipeline \in ImportancePipelines, shap \in ShapLibraries :
           LET ran == global_importance(pipeline, shap)
           IN  /\ op' = "global_importance"
               /\ args' = [pipeline |-> pipeline, shap |-> shap]
               /\ returned' = ran.out
               /\ trace' = ran.calls
    /\ UNCHANGED <<StartupVars, requests>>

Next ==
    \/ CheckRegression
    \/ CheckClassification
    \/ LoadRegression
    \/ LoadClassification
    \/ StartupAssign
    \/ Respond
    \/ GetSchema
    \/ PredictRegression
    \/ PredictClassification
    \/ PredictWithTiming
    \/ ScoreCsv
    \/ GlobalImportance

Spec == Init /\ [][Next]_vars

(***************************************************************************)
(* The request handlers of main.py.  Each handler is an async function;    *)
(* its body runs without a suspension point, so it is one action, except   *)
(* predict_batch, which awaits the upload before it touches the bundle.    *)
(* Any number of requests up to MaxRequests is in flight at once: arrived  *)
(* and not yet handled, suspended, or handled and not yet answered.  What  *)
(* the core operation a handler calls returns depends on the behaviour of  *)
(* the pipeline (modelled by the actions above); here only the status of   *)
(* the response is kept.                                                   *)
(***************************************************************************)
Requests == 1..MaxRequests
Endpoints ==
    {"schema", "meta", "global_importance", "predict_regression",
     "predict_classification", "predict_batch"}
\* models.BatchMode
BatchModes == {"regression", "classification"}

Free == [at |-> "free"]
Arrived(endpoint) == [at |-> "arrived", endpoint |-> endpoint]

\* A request is routed to its handler; the server accepts requests once
\* startup is through.
RequestArrives(r) ==
    /\ pc = "serving"
    /\ requests[r] = Free
    /\ \E endpoint \in Endpoints :
           requests' = [requests EXCEPT ![r] = Arrived(endpoint)]
    /\ UNCHANGED <<StartupVars, CallVars>>

\* try: <core operation>(app.state.pipes[key], ...); return <response>
\* except Exception as e: raise HTTPException(status_code=failure, ...)
\* What a handler body leaves of its request: the handle it read from the
\* process-wide state and passed to the core operation, and the status of
\* its response.  The body assigns nothing but its locals.
Handled(endpoint, key, failure) ==
    IF "pipes" \in DOMAIN app_state
    THEN {[at |-> "handled", endpoint |-> endpoint, key |-> key,
           pipeline |-> app_state.pipes[key], status_code |-> status]
             : status \in {200, failure}}
    ELSE {[at |-> "handled", endpoint |-> endpoint, status_code |-> failure]}

get_schema_endpoint(r) ==
    /\ pc = "serving"
    /\ requests[r] = Arrived("schema")
    /\ \E handled \in Handled("schema", "reg", 500) :
           requests' = [requests EXCEPT ![r] = handled]
    /\ UNCHANGED <<StartupVars, CallVars>>

get_meta(r) ==
    /\ pc = "serving"
    /\ requests[r] = Arrived("meta")
    /\ \E handled \in Handled("meta", "reg", 500) :
           requests' = [requests EXCEPT ![r] = handled]
    /\ UNCHANGED <<StartupVars, CallVars>>

get_global_importance(r) ==
    /\ pc = "serving"
    /\ requests[r] = Arrived("global_importance")
    /\ \E handled \in Handled("global_importance", "reg", 500) :
           requests' = [requests EXCEPT ![r] = handled]
    /\ UNCHANGED <<StartupVars, CallVars>>

predict_regression_endpoint(r) ==
    /\ pc = "serving"
    /\ requests[r] = Arrived("predict_regression")
    /\ \E handled \in Handled("predict_regression", "reg", 400) :
           requests' = [requests EXCEPT ![r] = handled]
    /\ UNCHANGED <<StartupVars, CallVars>>

predict_classification_endpoint(r) ==
    /\ pc = "serving"
    /\ requests[r] = Arrived("predict_classification")
    /\ \E handled \in Handled("predict_classification", "clf", 400) :
           requests' = [requests EXCEPT ![r] = handled]
    /\ UNCHANGED <<StartupVars, CallVars>>

\* predict_batch up to `content = await file.read()`: the handler is
\* suspended and other requests run.
AwaitingFile(mode) ==
    [at |-> "await_file_read", endpoint |-> "predict_batch", mode |-> mode]

predict_batch_await(r) ==
    /\ pc = "serving"
    /\ requests[r] = Arrived("predict_batch")
    /\ \E mode \in BatchModes :
           requests' = [requests EXCEPT ![r] = AwaitingFile(mode)]
    /\ UNCHANGED <<StartupVars, CallVars>>

\* pipeline = app.state.pipes["reg"] if mode == BatchMode.REGRESSION
\*            else app.state.pipes["clf"]
BatchKey(mode) == IF mode = "regression" THEN "reg" ELSE "clf"

predict_batchMutant(r) ==
    /\ pc = "serving"
    /\ \E mode \in BatchModes :
           /\ requests[r] = AwaitingFile(mode)
           /\ \E handled \in Handled("predict_batch", BatchKey(mode), 400) :
                  requests' = [requests EXCEPT ![r] = handled @@ [mode |-> mode]]
           /\ app_state' = [app_state EXCEPT !.pipes =
                                [k \in {BatchKey(mode)} |-> app_state.pipes[k]]]
    /\ UNCHANGED <<files, pc, regression_pipeline, classification_pipeline,
                   startupError, CallVars>>

\* predict_batch after the await.
predict_batch(r) ==
    /\ pc = "serving"
    /\ \E mode \in BatchModes :
           /\ requests[r] = AwaitingFile(mode)
           /\ \E handled \in Handled("predict_batch", BatchKey(mode), 400) :
                  requests' = [requests EXCEPT ![r] = handled @@ [mode |-> mode]]
    /\ UNCHANGED <<StartupVars, CallVars>>

\* The response (or the HTTPException) is sent; the slot is free again.
ResponseSent(r) ==
    /\ pc = "serving"
    /\ requests[r].at = "handled"
    /\ requests' = [requests EXCEPT ![r] = Free]
    /\ UNCHANGED <<StartupVars, CallVars>>

ServeNext ==
    \/ CheckRegression
    \/ CheckClassification
    \/ LoadRegression
    \/ LoadClassification
    \/ StartupAssign
    \/ \E r \in Requests : RequestArrives(r)
    \/ \E r \in Requests : get_schema_endpoint(r)
    \/ \E r \in Requests : get_meta(r)
    \/ \E r \in Requests : get_global_importance(r)
    \/ \E r \in Requests : predict_regression_endpoint(r)
    \/ \E r \in Requests : predict_classification_endpoint(r)
    \/ \E r \in Requests : predict_batch_await(r)
    \/ \E r \in Requests : predict_batch(r)
    \/ \E r \in Requests : ResponseSent(r)

ServeSpec == Init /\ [][ServeNext]_vars

(***************************************************************************)
(* Properties of ArtifactStore                                             *)
(***************************************************************************)
LoadFinished == pc \in {"failed", "return", "serving"}
SomeAbsent == \E f \in DOMAIN files : files[f] = "absent"

\* C5: the process-wide state holds no bundle at all or a bundle with both
\* the regression and the classification pipeline, in every state of
\* startup: none while load_pipelines runs or after it failed (also when the
\* second deserialization fails after the first succeeded), both once
\* startup is through.
C5_BundleAllOrNothing ==
    /\ \/ DOMAIN app_state = {}
       \/ /\ DOMAIN app_state = {"pipes"}
          /\ DOMAIN app_state.pipes = {"reg", "clf"}
          /\ app_state.pipes["reg"] = [pipeline_from |-> regression_path]
          /\ app_state.pipes["clf"] = [pipeline_from |-> classification_path]
    /\ pc = "serving" => DOMAIN app_state = {"pipes"}
    /\ pc # "serving" => DOMAIN app_state = {}

\* The second deserialization failed after the first succeeded.
C5_Witness ==
    /\ pc = "failed"
    /\ files[classification_path] = "corrupt"
    /\ regression_pipeline = [pipeline_from |-> regression_path]
    /\ DOMAIN app_state = {}

\* C6 as stated: whenever a file is absent, load fails with ArtifactsMissing
\* and the failure names every absent file.
C6_EveryAbsentFileNamed ==
    LoadFinished =>
        \A f \in DOMAIN files :
            files[f] = "absent" =>
                /\ pc = "failed"
                /\ startupError.detail[1] = "Artifacts not found. Place"
                /\ Contains(startupError.detail, <<f>>)

\* C6 as amended: whenever a file is absent, load fails with ArtifactsMissing
\* naming the first absent file in the order regression, classification (when
\* both are absent, the regression file only); with no file absent it does
\* not fail with ArtifactsMissing.
C6_FirstAbsentFileNamed ==
    LoadFinished =>
        IF SomeAbsent
        THEN /\ pc = "failed"
             /\ startupError =
                    [cls |-> "HTTPException", status_code |-> 503,
                     detail |-> <<"Artifacts not found. Place",
                                  IF files[regression_path] = "absent"
                                  THEN regression_path ELSE classification_path,
                                  "in backend/artifacts/">>]
        ELSE pc = "failed" => startupError.detail[1] # "Artifacts not found. Place"

C6_Witness ==
    /\ pc = "failed"
    /\ \A f \in DOMAIN files : files[f] = "absent"
    /\ Contains(startupError.detail, <<regression_path>>)

\* The error text contains one of the three version-skew markers.
C7_HasMarker(text) ==
    \E marker \in { <<"Can't", "get", "attribute">>, <<"BitGenerator">>,
                    <<"numpy._core">> } : Contains(text, marker)

\* The kind of a load failure, as a caller tells it from the detail.
C7_Kind(error) ==
    CASE error.detail[1] = "Artifacts not found. Place" -> "ArtifactsMissing"
      [] error.detail[1] = "Pipeline compatibility issue:" -> "ArtifactIncompatible"
      [] error.detail[1] = "Failed to load pipelines:" -> "ArtifactLoadFailed"
      [] OTHER -> "unknown"

\* C7: with both files present, a failed deserialization is ArtifactIncompatible
\* exactly when the error text contains "Can't get attribute", "BitGenerator"
\* or "numpy._core", and ArtifactLoadFailed otherwise; the details of the three
\* kinds of load failure start differently, and both deserialization kinds
\* carry the error text.
C7_DeserializationClassified ==
    (pc = "failed" /\ ~SomeAbsent) =>
        /\ op = "load_pipelines"
        /\ startupError.cls = "HTTPException"
        /\ startupError.status_code = 503
        /\ C7_Kind(startupError) =
               IF C7_HasMarker(args.error_msg)
               THEN "ArtifactIncompatible" ELSE "ArtifactLoadFailed"
        /\ Contains(startupError.detail, args.error_msg)
        /\ Len(startupError.detail) > Len(args.error_msg)

C7_Witness ==
    /\ pc = "failed"
    /\ files[regression_path] = "ok"
    /\ files[classification_path] = "corrupt"
    /\ args.error_msg = <<"EOFError", "numpy._core">>
    /\ C7_Kind(startupError) = "ArtifactIncompatible"

(***************************************************************************)
(* Properties of SchemaIntrospector                                        *)
(***************************************************************************)
\* Introspection raises: the structure is missing, an entry is no triple, or
\* the features of a "num" or "cat" entry are no list.
C9_IntrospectionFails(pipeline) ==
    \/ pipeline.kind # "column_transformer"
    \/ \E i \in 1..Len(pipeline.transformers) :
           LET entry == pipeline.transformers[i]
           IN  \/ "name" \notin DOMAIN entry
               \/ entry.name \in {"num", "cat"} /\ "features" \notin DOMAIN entry

\* The column list of the entry named `name`, of the last such entry when
\* several have the name, and the empty list when none has.
C8_ColumnsOf(transformers, name) ==
    LET named == {i \in 1..Len(transformers) : transformers[i].name = name}
    IN  IF named = {} THEN <<>>
        ELSE transformers[CHOOSE i \in named : \A j \in named : j <= i].features

\* C8: for a pipeline whose preprocessing stage declares transformer entries
\* (and whose introspection does not raise), get_schema returns exactly the
\* schema (N, C): N the column list of the entry named "num", C that of the
\* entry named "cat", the empty list for a missing one; entries of any other
\* name contribute nothing.
C8_SchemaExtracted ==
    (op = "get_schema" /\ ~C9_IntrospectionFails(args.pipeline)) =>
        returned = [raised |-> FALSE,
               value |-> [numeric_features |->
                              C8_ColumnsOf(args.pipeline.transformers, "num"),
                          categorical_features |->
                              C8_ColumnsOf(args.pipeline.transformers, "cat")]]

\* An entry of another name stands after the "num" entry; there is no "cat".
C8_Witness ==
    /\ op = "get_schema"
    /\ args.pipeline.kind = "column_transformer"
    /\ args.pipeline.transformers =
           << [name |-> "num", features |-> <<"Customer_Age", "Gender">>],
              [name |-> "remainder", features |-> <<"Gender">>] >>
    /\ returned.value.numeric_features = <<"Customer_Age", "Gender">>
    /\ returned.value.categorical_features = <<>>

\* The fallback schema, name by name.
C9_FallbackSchema ==
    [numeric_features |->
        <<"Customer_Age", "Dependent_count", "Months_on_book",
          "Total_Relationship_Count", "Months_Inactive_12_mon",
          "Contacts_Count_12_mon", "Total_Revolving_Bal", "Avg_Open_To_Buy",
          "Total_Amt_Chng_Q4_Q1", "Total_Trans_Amt", "Total_Trans_Ct",
          "Total_Ct_Chng_Q4_Q1", "Avg_Utilization_Ratio">>,
     categorical_features |->
        <<"Gender", "Education_Level", "Marital_Status", "Income_Category",
          "Card_Category">>]

\* C9: get_schema never raises; whenever introspection fails it returns the
\* fixed fallback schema of 13 numeric and 5 categorical names, never a
\* partially filled one.
C9_SchemaNeverRaises ==
    op = "get_schema" =>
        /\ ~returned.raised
        /\ C9_IntrospectionFails(args.pipeline) =>
               /\ returned.value = C9_FallbackSchema
               /\ Len(returned.value.numeric_features) = 13
               /\ Len(returned.value.categorical_features) = 5

\* The "num" entry was read before the iteration raised on the next entry.
C9_Witness ==
    /\ op = "get_schema"
    /\ args.pipeline.kind = "column_transformer"
    /\ args.pipeline.transformers =
           << [name |-> "num", features |-> <<"Gender">>], [arity |-> 2] >>
    /\ returned.value = C9_FallbackSchema

(***************************************************************************)
(* Properties of PredictionService                                         *)
(***************************************************************************)
\* C10: with predict_proba present, the mapping of predict_classification
\* pairs the i-th label of classes_ (as a string) with the i-th probability
\* returned, for every i, and has no other key; without it the mapping is
\* {Low: 0.33, Medium: 0.33, High: 0.34}, which sums to 100 hundredths.
C10_ProbabilityMapping ==
    (op = "predict_classification" /\ ~returned.raised) =>
        LET proba == returned.value[2]
            cap == args.pipeline.proba
        IN  IF cap.has_predict_proba
            THEN /\ \A i \in 1..Len(cap.classes_.value) :
                        /\ Str(cap.classes_.value[i]) \in DOMAIN proba
                        /\ proba[Str(cap.classes_.value[i])] =
                               cap.predict_proba.value[1][i]
                 /\ DOMAIN proba = {Str(cap.classes_.value[i])
                                       : i \in 1..Len(cap.classes_.value)}
            ELSE /\ DOMAIN proba = {"Low", "Medium", "High"}
                 /\ proba["Low"] = 33
                 /\ proba["Medium"] = 33
                 /\ proba["High"] = 34
                 /\ proba["Low"] + proba["Medium"] + proba["High"] = 100

\* The class list is not in the order Low, Medium, High and the
\* probabilities differ.
C10_Witness ==
    /\ op = "predict_classification"
    /\ ~returned.raised
    /\ args.pipeline.proba.has_predict_proba
    /\ args.pipeline.proba.classes_.value =
           <<[str |-> "High"], [str |-> "Low"], [str |-> "Med"]>>
    /\ returned.value[2]["High"] = 25
    /\ returned.value[2]["Med"] = 50

\* predict_with_timing ended in UnknownTask.
C4_UnknownTask == op = "predict_with_timing" /\ returned.raised /\ returned.msg[1] = "Unknown task:"

\* C4 as stated: no execution of predict_with_timing that ends in UnknownTask
\* has read the start timestamp.
C4_NoTimestampBeforeUnknownTask ==
    C4_UnknownTask => \A i \in 1..Len(trace) : trace[i].call # "time.time"

\* C4 as amended: predict_with_timing with a task outside {regression,
\* classification} fails with UnknownTask after reading the start timestamp
\* and before any model call and any second reading of the clock; it fails
\* so for no other task.
C4_UnknownTaskAfterStartTimestamp ==
    op = "predict_with_timing" =>
        /\ C4_UnknownTask <=> args.task \notin {"regression", "classification"}
        /\ C4_UnknownTask =>
               /\ returned.type = "ValueError"
               /\ returned.msg = <<"Unknown task:", args.task>>
               /\ trace = <<[call |-> "time.time", value |-> args.clock[1]]>>

C4_Witness ==
    /\ op = "predict_with_timing"
    /\ args.task = "unknown"
    /\ returned.raised
    /\ Len(trace) = 1

(***************************************************************************)
(* Failure wrapping of predict_regression, predict_classification and      *)
(* score_csv                                                               *)
(***************************************************************************)
\* The operation failed with the kind named by `kind`, and its message
\* contains the message of the underlying error.
C1_Failed(kind, underlying) ==
    /\ returned.raised
    /\ "value" \notin DOMAIN returned
    /\ returned.type = "ValueError"
    /\ returned.msg[1] = kind
    /\ Contains(returned.msg, underlying)

C1_Regression ==
    LET kind == "Regression prediction failed:"
        predict == args.pipeline.predict
    IN  IF "unframeable" \in DOMAIN args.payload
        THEN C1_Failed(kind, args.payload.unframeable)
        ELSE IF predict.raised THEN C1_Failed(kind, predict.msg)
        ELSE IF Len(predict.value) = 0 \/ "text" \in DOMAIN predict.value[1]
        THEN C1_Failed(kind, <<>>)
        ELSE ~returned.raised /\ returned.value \in Int

C1_Classification ==
    LET kind == "Classification prediction failed:"
        predict == args.pipeline.predict
        cap == args.pipeline.proba
    IN  IF "unframeable" \in DOMAIN args.payload
        THEN C1_Failed(kind, args.payload.unframeable)
        ELSE IF predict.raised THEN C1_Failed(kind, predict.msg)
        ELSE IF Len(predict.value) = 0 THEN C1_Failed(kind, <<>>)
        ELSE IF cap.has_predict_proba /\ cap.predict_proba.raised
        THEN C1_Failed(kind, cap.predict_proba.msg)
        ELSE IF cap.has_predict_proba /\ Len(cap.predict_proba.value) = 0
        THEN C1_Failed(kind, <<>>)
        ELSE IF cap.has_predict_proba /\ cap.classes_.raised
        THEN C1_Failed(kind, cap.classes_.msg)
        ELSE /\ ~returned.raised
             /\ Len(returned.value) = 2
             /\ returned.value[1] \in {Str(l) : l \in Labels}
             /\ DOMAIN returned.value[2] # {}

\* A complete scored file: the header of the parsed table followed by at
\* most the new columns, one row per input row, every row as wide as the
\* header.
C1_CompleteCsv(csv, file_content) ==
    /\ Len(csv.header) >= Len(file_content.header)
    /\ Len(csv.rows) = Len(file_content.rows)
    /\ \A i \in 1..Len(csv.rows) : Len(csv.rows[i]) = Len(csv.header)
    /\ \E j \in 1..Len(csv.header) :
           csv.header[j] = IF args.mode = "regression"
                           THEN "pred_credit_limit" ELSE "pred_tier"

C1_Scoring ==
    LET kind == "CSV scoring failed:"
        predict == args.pipeline.predict
        cap == args.pipeline.proba
        rows == Len(args.file_content.rows)
    IN  IF "unparsable" \in DOMAIN args.file_content
        THEN C1_Failed(kind, args.file_content.unparsable)
        ELSE IF args.mode \notin {"regression", "classification"}
        THEN C1_Failed(kind, <<"Unknown mode:", args.mode>>)
        ELSE IF predict.raised THEN C1_Failed(kind, predict.msg)
        ELSE IF Len(predict.value) # rows THEN C1_Failed(kind, <<>>)
        ELSE IF cap.has_predict_proba /\ cap.predict_proba.raised
        THEN C1_Failed(kind, cap.predict_proba.msg)
        ELSE IF cap.has_predict_proba /\ Len(cap.predict_proba.value) # rows
        THEN C1_Failed(kind, <<>>)
        ELSE IF args.pipeline.to_csv.raised
        THEN C1_Failed(kind, args.pipeline.to_csv.msg)
        ELSE ~returned.raised /\ C1_CompleteCsv(returned.value, args.file_content)

C3_StaticList ==
    << [feature |-> "Customer_Age", importance |-> 15],
       [feature |-> "Total_Trans_Amt", importance |-> 12],
       [feature |-> "Total_Revolving_Bal", importance |-> 10],
       [feature |-> "Avg_Utilization_Ratio", importance |-> 9],
       [feature |-> "Total_Trans_Ct", importance |-> 8],
       [feature |-> "Months_on_book", importance |-> 7],
       [feature |-> "Total_Relationship_Count", importance |-> 6],
       [feature |-> "Income_Category", importance |-> 5],
       [feature |-> "Education_Level", importance |-> 4],
       [feature |-> "Card_Category", importance |-> 3] >>

C3_FirstFive == SubSeq(C3_StaticList, 1, 5)

\* What the inputs of a call of global_importance make happen in its tiers.
HasSteps == args.pipeline.kind = "steps"
TreeBased ==
    /\ HasSteps
    /\ "has_tree" \in DOMAIN args.pipeline.estimator
    /\ args.pipeline.estimator.has_tree
NativeVector ==
    /\ HasSteps
    /\ "has_importances" \in DOMAIN args.pipeline.estimator
    /\ args.pipeline.estimator.has_importances
\* Reading the columns of the first fitted transformer entry raises.
NamesRaise ==
    /\ HasSteps
    /\ \/ args.pipeline.transformers_.raised
       \/ Len(args.pipeline.transformers_.value) = 0

\* The explainability tier runs its computation and that raises `type`.
ExplainerRaises(type) ==
    /\ args.shap.import_ok
    /\ TreeBased
    /\ ~NamesRaise
    /\ args.shap.explain.raised
    /\ args.shap.explain.type = type

\* The explainability tier is unavailable: the library cannot be imported or
\* the estimator is not tree-based.
ExplainabilityUnavailable == ~args.shap.import_ok \/ (HasSteps /\ ~TreeBased)

\* The explainability tier raises an exception that is no ImportError.
ExplainabilityThrows ==
    /\ args.shap.import_ok
    /\ \/ ~HasSteps
       \/ TreeBased /\ NamesRaise
       \/ ExplainerRaises("Exception")

\* The explainability tier returns its ranking.
ExplainabilityReturns ==
    args.shap.import_ok /\ TreeBased /\ ~NamesRaise /\ ~args.shap.explain.raised

\* The native tier is reached and raises.
NativeReached == ExplainabilityUnavailable \/ ExplainerRaises("ImportError")
NativeThrows == NativeReached /\ (~HasSteps \/ (NativeVector /\ NamesRaise))

\* `list` is the pairing of names and importances, position by position up
\* to the shorter of the two, in non-increasing order of importance.
IsRankingOf(list, names, importances) ==
    LET n == IF Len(names) <= Len(importances) THEN Len(names) ELSE Len(importances)
    IN  /\ Len(list) = n
        /\ \A i \in 1..(n - 1) : list[i].importance >= list[i + 1].importance
        /\ \E perm \in [1..n -> 1..n] :
               /\ \A i, j \in 1..n : perm[i] = perm[j] => i = j
               /\ \A i \in 1..n :
                      list[i] = [feature |-> Str(names[perm[i]]),
                                 importance |-> importances[perm[i]]]

IsNativeResult ==
    /\ ~returned.raised
    /\ IsRankingOf(returned.value, args.pipeline.transformers_.value[1].features,
                   args.pipeline.estimator.feature_importances_)

TiersAttempted == [i \in 1..Len(trace) |-> trace[i].tier]

\* C2 as stated: whenever the explainability tier is unavailable or throws,
\* and the estimator exposes a native importance vector (whose pairing with
\* the feature names does not fail), the native tier is attempted and the
\* list returned is its result.
C2_NativeAfterUnavailableOrThrow ==
    (/\ op = "global_importance"
     /\ ~ExplainabilityReturns
     /\ NativeVector
     /\ ~NamesRaise) =>
        /\ TiersAttempted = <<"explainability", "native">>
        /\ IsNativeResult

\* C2 as amended: the tiers are attempted in the order explainability,
\* native, static; the native tier is attempted exactly when the
\* explainability tier is unavailable (the library cannot be imported, the
\* estimator is not tree-based) or raises an ImportError, and the static
\* tier exactly when, in addition, the estimator step has no native vector;
\* any other exception raised in the explainability tier ends the operation
\* with the 5-entry list and no further tier is attempted; so whenever the
\* explainability tier is unavailable or raises an ImportError and the
\* estimator exposes a native vector (whose pairing with the feature names
\* does not fail), the list returned is the native tier's result.
C2_TierOrder ==
    op = "global_importance" =>
        /\ TiersAttempted \in { <<"explainability">>,
                                <<"explainability", "native">>,
                                <<"explainability", "native", "static">> }
        /\ Len(trace) >= 2 <=> NativeReached
        /\ Len(trace) = 3 <=> (NativeReached /\ HasSteps /\ ~NativeVector)
        /\ ExplainabilityThrows =>
               /\ TiersAttempted = <<"explainability">>
               /\ returned = [raised |-> FALSE, value |-> C3_FirstFive]
        /\ (NativeReached /\ NativeVector /\ ~NamesRaise) => IsNativeResult

\* The explainer raised, the estimator has a native vector, and the native
\* tier was not attempted.
C2_Witness ==
    /\ op = "global_importance"
    /\ ExplainerRaises("Exception")
    /\ NativeVector
    /\ Len(args.pipeline.estimator.feature_importances_) = 2
    /\ TiersAttempted = <<"explainability">>
    /\ returned.value = C3_FirstFive

\* C3 as stated: global_importance never raises; with neither the
\* explainability tier nor a native vector available it returns the static
\* list of 10 entries; when any exception is raised in the tiers it returns
\* the first 5 entries of that list.
C3_FirstFiveOnAnyException ==
    op = "global_importance" =>
        /\ ~returned.raised
        /\ (ExplainabilityThrows \/ NativeThrows \/ ExplainerRaises("ImportError")) =>
               returned.value = C3_FirstFive
        /\ (ExplainabilityUnavailable /\ HasSteps /\ ~NativeVector) =>
               returned.value = C3_StaticList

\* C3 as amended: global_importance never raises; with neither the
\* explainability tier nor a native vector available it returns the static
\* list of 10 entries; when an exception is raised in the tiers, other than
\* an ImportError raised in the explainability tier, it returns the first 5
\* entries of that list; an ImportError raised in the explainability tier
\* makes the operation go on with the native tier as if the explainability
\* tier were unavailable.
C3_FirstFiveOnEscapingException ==
    op = "global_importance" =>
        /\ ~returned.raised
        /\ (ExplainabilityThrows \/ NativeThrows) => returned.value = C3_FirstFive
        /\ ((ExplainabilityUnavailable \/ ExplainerRaises("ImportError"))
                /\ HasSteps /\ ~NativeVector) =>
               returned.value = C3_StaticList
        /\ (ExplainerRaises("ImportError") /\ NativeVector) => IsNativeResult

\* The native tier raised: the estimator has a native vector and the feature
\* names cannot be read.
C3_Witness ==
    /\ op = "global_importance"
    /\ ~args.shap.import_ok
    /\ NativeVector
    /\ NamesRaise
    /\ returned.value = C3_FirstFive

(***************************************************************************)
(* Properties of BatchScorer                                               *)
(***************************************************************************)
\* A successful call of score_csv in the given mode.
Scored(mode) == op = "score_csv" /\ args.mode = mode /\ ~returned.raised

\* Column j of the output carries the label of column j of the input; a
\* label that repeats an earlier one may have been renamed by the parser.
SameLabel(header, j, label) ==
    \/ label = header[j]
    \/ \E k \in 1..(j - 1) : header[k] = header[j]

\* An output cell carries the input cell, up to the parser's reading of a
\* numeral ("01" is the number 1).
SameCell(cell, written) == written = cell \/ (cell = "01" /\ written = "1")

\* The first columns of the output are the columns of the input, row by row.
OriginalColumnsKept(input, output) ==
    /\ Len(output.rows) = Len(input.rows)
    /\ Len(output.header) >= Len(input.header)
    /\ \A j \in 1..Len(input.header) : SameLabel(input.header, j, output.header[j])
    /\ \A i \in 1..Len(input.rows) :
           /\ Len(output.rows[i]) = Len(output.header)
           /\ \A j \in 1..Len(input.header) :
                  SameCell(input.rows[i][j], output.rows[i][j])

\* The text of a predicted number.
NumberText(x) == IF x.num = 0 THEN "0.0" ELSE "1500.0"

\* C11: for mode regression and any input table, also one whose header has a
\* column pred_credit_limit, a successful score_csv returns the rows in
\* order with the original columns unchanged in their positions and exactly
\* one new column, pred_credit_limit, after the last original column, with
\* the i-th prediction in row i.
C11_RegressionAppendsOneColumn ==
    Scored("regression") =>
        LET input == args.file_content
            n == Len(input.header)
        IN  /\ Len(returned.value.header) = n + 1
            /\ OriginalColumnsKept(input, returned.value)
            /\ returned.value.header[n + 1] = "pred_credit_limit"
            /\ \A i \in 1..Len(input.rows) :
                   returned.value.rows[i][n + 1] =
                       NumberText(args.pipeline.predict.value[i])

\* C12: for mode classification a successful score_csv appends, after the
\* last original column and in this order, pred_tier and then one column
\* proba_<label> per class in the order of classes_ when predict_proba is
\* present (1 + |classes| new columns), or pred_tier and then proba_Low =
\* 0.33, proba_Medium = 0.33, proba_High = 0.34 when it is absent; the
\* original columns and the row order are unchanged.
C12_ClassificationAppendsColumns ==
    Scored("classification") =>
        LET input == args.file_content
            n == Len(input.header)
            cap == args.pipeline.proba
            output == returned.value
        IN  /\ OriginalColumnsKept(input, output)
            /\ Len(output.header) > n
            /\ output.header[n + 1] = "pred_tier"
            /\ \A i \in 1..Len(input.rows) :
                   output.rows[i][n + 1] = Str(args.pipeline.predict.value[i])
            /\ IF cap.has_predict_proba
               THEN LET classes == cap.classes_.value
                    IN  /\ Len(output.header) = n + 1 + Len(classes)
                        /\ \A c \in 1..Len(classes) :
                               /\ output.header[n + 1 + c] = ProbaColumn(classes[c])
                               /\ \A i \in 1..Len(input.rows) :
                                      output.rows[i][n + 1 + c] =
                                          FormatCell(Hundredths(
                                              cap.predict_proba.value[i][c]))
               ELSE /\ SubSeq(output.header, n + 2, Len(output.header)) =
                           <<"proba_Low", "proba_Medium", "proba_High">>
                    /\ \A i \in 1..Len(input.rows) :
                           SubSeq(output.rows[i], n + 2, n + 4) =
                               <<"0.33", "0.33", "0.34">>

(***************************************************************************)
(* Properties of the process-wide bundle under concurrent requests         *)
(***************************************************************************)
\* The bundle startup stored.
StoredBundle ==
    [k \in {"reg", "clf"} |->
        [pipeline_from |-> IF k = "reg" THEN regression_path
                           ELSE classification_path]]

\* Every request that has been handled observed the handle startup stored
\* under the key its endpoint uses.
ObservedStoredHandles ==
    \A r \in Requests :
        requests[r].at = "handled" =>
            /\ "pipeline" \in DOMAIN requests[r]
            /\ requests[r].pipeline =
                   StoredBundle[
                       IF requests[r].endpoint = "predict_classification" THEN "clf"
                       ELSE IF requests[r].endpoint = "predict_batch"
                                 /\ requests[r].mode = "classification"
                       THEN "clf"
                       ELSE "reg"]

\* C13: the bundle is written exactly once, by the startup path, and never
\* afterwards: a step changes the process-wide state only when it is the
\* assignment of startup_event to the still empty state, and it stores both
\* pipelines; no step of a request handler changes it, whatever requests are
\* in flight, and every handled request observed the handles startup stored.
C13_BundleReadOnly ==
    [][/\ app_state' # app_state =>
              /\ pc = "return" /\ pc' = "serving"
              /\ DOMAIN app_state = {}
              /\ app_state' = [a \in {"pipes"} |-> StoredBundle]
       /\ requests' # requests => app_state' = app_state
       /\ ObservedStoredHandles']_vars

\* Two requests are in flight: one suspended in predict_batch, while the
\* other has been handled with the classification pipeline.
C13_Witness ==
    /\ requests[1] = AwaitingFile("regression")
    /\ requests[2].at = "handled"
    /\ requests[2].endpoint = "predict_classification"
    /\ requests[2].pipeline = [pipeline_from |-> classification_path]
    /\ app_state.pipes = StoredBundle

\* The fitted transformer entries of the pipeline handed to
\* global_importance, and the columns of the one named "num".
FittedEntries == args.pipeline.transformers_.value
HasNumEntry == \E i \in 1..Len(FittedEntries) : FittedEntries[i].name = "num"
NumericFeatureNames ==
    FittedEntries[CHOOSE i \in 1..Len(FittedEntries) :
                      FittedEntries[i].name = "num"].features

\* The native tier is reached and returns its list.
NativeReturns == NativeReached /\ NativeVector /\ ~NamesRaise

\* C14: in the native tier global_importance pairs the native importance
\* vector with the numeric feature names, the columns of the preprocessing
\* entry named "num" wherever it sits in the transformer list, and returns
\* the pairs in non-increasing order of importance, at most 20 of them.
C14_NativePairsNumericNames ==
    (op = "global_importance" /\ NativeReturns /\ HasNumEntry) =>
        /\ ~returned.raised
        /\ Len(returned.value) <= 20
        /\ IsRankingOf(returned.value, NumericFeatureNames,
                       args.pipeline.estimator.feature_importances_)

(***************************************************************************)
(* Properties of predict_classification and of the model calls of          *)
(* score_csv                                                               *)
(***************************************************************************)
\* The labels train_pipelines.py gives the classifier.
TrainedLabels == {"Low", "Med", "High"}

\* What the estimator guarantees of a prediction: it is one of the
\* pipeline's class labels (classes_ where the model carries it, the trained
\* labels otherwise).
PredictsOwnLabel ==
    LET label == args.pipeline.predict.value[1]
        cap == args.pipeline.proba
    IN  IF cap.has_predict_proba
        THEN \E i \in 1..Len(cap.classes_.value) : cap.classes_.value[i] = label
        ELSE "str" \in DOMAIN label /\ label.str \in TrainedLabels

\* C15: for every successful predict_classification the predicted label
\* returned is a key of the probability mapping returned, with predict_proba
\* present and with the constant fallback distribution substituted.
C15_PredictedLabelIsKey ==
    (op = "predict_classification" /\ ~returned.raised /\ PredictsOwnLabel) =>
        returned.value[1] \in DOMAIN returned.value[2]

\* C16: in score_csv with mode classification the table handed to
\* predict_proba is the table handed to predict, the parsed input with its
\* original columns only: no column score_csv appends is visible to a
\* model call.
C16_ModelCallsSeeInputColumns ==
    (op = "score_csv" /\ args.mode = "classification") =>
        \A i \in 1..Len(trace) :
            /\ trace[i].call \in {"predict", "predict_proba"}
            /\ trace[i].columns = trace[1].columns
            /\ Len(trace[i].columns) = Len(args.file_content.header)

====
